---- MODULE Spec2Model ----
(***************************************************************************)
(* Model of website_chatbot.py: the content extractor's pure functions,    *)
(* the GeminiBot responder and the WebsiteChatbot console session.         *)
(*                                                                         *)
(* Text is modelled as a sequence of one-character strings, so strip(),    *)
(* lower(), startswith() and the `in` substring test are computed as       *)
(* Python computes them.  Page text handed to _extract_main_content is     *)
(* run-length encoded (a sequence of [c, n] runs) so that texts longer     *)
(* than the 5000 character cut can be represented.                         *)
(***************************************************************************)
EXTENDS Integers, Sequences, FiniteSets, TLC

VARIABLES
    pc,                   \* position of the console session (run/setup/_change_website)
    exitCode,             \* process exit status once terminated, NotExited before
    event,                \* the last console read or external call: [at, kind, text]
    api_key,              \* the local api_key of setup()
    url,                  \* the local url of setup() / _change_website()
    website_url,          \* WebsiteChatbot.website_url (None is <<>>, a value v is <<v>>)
    chatbot,              \* WebsiteChatbot.chatbot is constructed
    conversation_history, \* GeminiBot.conversation_history
    website_content,      \* GeminiBot.website_content (None is <<>>, a dict d is <<d>>)
    context,              \* GeminiBot.context (unset is <<>>, a block b is <<b>>)
    prompt,               \* the last prompt handed to generate_content (none is <<>>)
    reply,                \* the last value returned by chat (none is <<>>)
    model_called,         \* generate_content has been called at least once
    exchanges,            \* every successful exchange so far, oldest first (history variable)
    soup,                 \* the parsed document given to the extractor
    extracted             \* the extractor's result for soup (none is <<>>)

vars == <<pc, exitCode, event, api_key, url, website_url, chatbot,
          conversation_history, website_content, context, prompt, reply,
          model_called, exchanges, soup, extracted>>

sessionVars == <<pc, exitCode, api_key, url, website_url, chatbot>>
botVars == <<conversation_history, website_content, context, prompt, reply,
             model_called, exchanges>>
extractorVars == <<soup, extracted>>

-----------------------------------------------------------------------------
(* Python string operations on character sequences.                        *)

None == <<>>
Some(v) == <<v>>

Upper == <<"A","B","C","D","E","F","G","H","I","J","K","L","M",
           "N","O","P","Q","R","S","T","U","V","W","X","Y","Z">>
LowerLetters == <<"a","b","c","d","e","f","g","h","i","j","k","l","m",
                  "n","o","p","q","r","s","t","u","v","w","x","y","z">>

Whitespace == {" ", "\n", "\t"}

LowerChar(c) ==
    IF \E i \in 1..26 : Upper[i] = c
    THEN LowerLetters[CHOOSE i \in 1..26 : Upper[i] = c]
    ELSE c

\* str.lower()
Lower(s) == [i \in 1..Len(s) |-> LowerChar(s[i])]

\* str.strip()
Strip(s) ==
    LET keep == {i \in 1..Len(s) : s[i] \notin Whitespace}
    IN  IF keep = {} THEN <<>>
        ELSE LET lo == CHOOSE i \in keep : \A j \in keep : i <= j
                 hi == CHOOSE i \in keep : \A j \in keep : j <= i
             IN  SubSeq(s, lo, hi)

\* str.startswith(p)
StartsWith(s, p) == Len(p) <= Len(s) /\ SubSeq(s, 1, Len(p)) = p

\* sub in s
Contains(s, sub) ==
    \E i \in 0..(Len(s) - Len(sub)) : SubSeq(s, i + 1, i + Len(sub)) = sub

\* s[-n:] of a list, n > 0
LastN(s, n) == IF Len(s) <= n THEN s ELSE SubSeq(s, Len(s) - n + 1, Len(s))

\* s[:n]
FirstN(s, n) == IF Len(s) <= n THEN s ELSE SubSeq(s, 1, n)

-----------------------------------------------------------------------------
(* Run-length encoded text: a sequence of runs [c |-> character, n |-> count], *)
(* n >= 1.  The empty string is <<>>.                                          *)

Run(c, n) == [c |-> c, n |-> n]

RECURSIVE RunLen(_)
\* len(text)
RunLen(t) == IF t = <<>> THEN 0 ELSE Head(t).n + RunLen(Tail(t))

\* text.strip()
StripRuns(t) ==
    LET keep == {i \in 1..Len(t) : t[i].c \notin Whitespace}
    IN  IF keep = {} THEN <<>>
        ELSE LET lo == CHOOSE i \in keep : \A j \in keep : i <= j
                 hi == CHOOSE i \in keep : \A j \in keep : j <= i
             IN  SubSeq(t, lo, hi)

RECURSIVE DropSpace(_)
DropSpace(t) ==
    IF t # <<>> /\ Head(t).c \in Whitespace THEN DropSpace(Tail(t)) ELSE t

RECURSIVE CollapseSpace(_)
\* re.sub(r'\s+', ' ', text)
CollapseSpace(t) ==
    IF t = <<>> THEN <<>>
    ELSE IF Head(t).c \in Whitespace
         THEN <<Run(" ", 1)>> \o CollapseSpace(DropSpace(t))
         ELSE <<Head(t)>> \o CollapseSpace(Tail(t))

RECURSIVE TakeRuns(_, _)
\* text[:k]
TakeRuns(t, k) ==
    IF t = <<>> \/ k <= 0 THEN <<>>
    ELSE IF Head(t).n >= k THEN <<Run(Head(t).c, k)>>
         ELSE <<Head(t)>> \o TakeRuns(Tail(t), k - Head(t).n)

RECURSIVE JoinRuns(_)
\* " ".join(texts)
JoinRuns(texts) ==
    IF texts = <<>> THEN <<>>
    ELSE IF Len(texts) = 1 THEN Head(texts)
         ELSE Head(texts) \o <<Run(" ", 1)>> \o JoinRuns(Tail(texts))

RECURSIVE ConcatRuns(_)
\* "".join(texts)
ConcatRuns(texts) ==
    IF texts = <<>> THEN <<>> ELSE Head(texts) \o ConcatRuns(Tail(texts))

-----------------------------------------------------------------------------
(* WebsiteContentExtractor.  A soup is the parsed document after the       *)
(* script/style/nav/footer/header/aside elements have been decomposed:     *)
(*   title    : None or Some(text of the first title element)              *)
(*   body     : whether the document has a body element                    *)
(*   nodes    : the text-bearing elements in document order, each          *)
(*              [sels |-> the selectors it matches, text |-> its text]     *)
(*   headings : the h1..h6 elements in document order, [level, text]       *)
(*   anchors  : the a[href] elements in document order, [href, text]       *)
(*   meta     : None or Some(content of meta[name=description])            *)

main_selectors == <<"main", "article", ".content", "#content", ".main", "#main">>

MaxContentLength == 5000
MaxHeadings == 20
MaxLinks == 10

NoTitle == <<"N","o"," ","t","i","t","l","e"," ","f","o","u","n","d">>
NoMeta ==
    <<"N","o"," ","m","e","t","a"," ","d","e","s","c","r","i","p","t","i","o","n"," ","f","o","u","n","d">>

\* soup.select(selector)
Select(sp, selector) == SelectSeq(sp.nodes, LAMBDA e : selector \in e.sels)

\* body.get_text() when the document has a body
BodyText(sp) == ConcatRuns([i \in 1..Len(sp.nodes) |-> sp.nodes[i].text])

_extract_title(sp) == IF sp.title # None THEN Strip(sp.title[1]) ELSE NoTitle

\* FirstMatch without the break: the last selector with elements wins
FirstMatchNoBreak(sp, k) ==
    LET hits == {j \in k..Len(main_selectors) : Select(sp, main_selectors[j]) # <<>>}
    IN  IF hits = {} THEN <<>>
        ELSE LET last == CHOOSE j \in hits : \A i \in hits : i <= j
                 elements == Select(sp, main_selectors[last])
             IN  JoinRuns([i \in 1..Len(elements) |-> StripRuns(elements[i].text)])

RECURSIVE FirstMatch(_, _)
\* the for loop over main_selectors: the joined text of the first selector
\* with elements, "" when the loop ends without a break
FirstMatch(sp, k) ==
    IF k > Len(main_selectors) THEN <<>>
    ELSE LET elements == Select(sp, main_selectors[k])
         IN  IF elements # <<>>
             THEN JoinRuns([i \in 1..Len(elements) |-> StripRuns(elements[i].text)])
             ELSE FirstMatch(sp, k + 1)

_extract_main_content(sp) ==
    LET found == FirstMatch(sp, 1)
        main_content == IF RunLen(found) = 0
                        THEN IF sp.body THEN BodyText(sp) ELSE <<>>
                        ELSE found
    IN  TakeRuns(StripRuns(CollapseSpace(main_content)), MaxContentLength)

Digit == <<"1", "2", "3", "4", "5", "6">>

\* f"H{i}: {text}"
HeadingString(i, text) == <<"H", Digit[i], ":", " ">> \o text

RECURSIVE CollectHeadings(_, _)
\* the nested loops of _extract_headings from level i on
CollectHeadings(sp, i) ==
    IF i > 6 THEN <<>>
    ELSE LET found == SelectSeq(sp.headings, LAMBDA h : h.level = i)
             kept  == SelectSeq(found, LAMBDA h : Strip(h.text) # <<>>)
         IN  [j \in 1..Len(kept) |-> HeadingString(i, Strip(kept[j].text))]
             \o CollectHeadings(sp, i + 1)

\* _extract_headings keeping the last MaxHeadings entries
_extract_headings_last(sp) == LastN(CollectHeadings(sp, 1), MaxHeadings)

_extract_headings(sp) == FirstN(CollectHeadings(sp, 1), MaxHeadings)

\* urljoin(base_url, href) for an absolute href is the href itself; the
\* documents of this model carry absolute hrefs only
urljoin(base_url, href) == href

_extract_links(sp, base_url) ==
    LET first == FirstN(sp.anchors, MaxLinks)
        kept  == SelectSeq(first, LAMBDA a : Strip(a.text) # <<>>)
    IN  [j \in 1..Len(kept) |->
            Strip(kept[j].text) \o <<":", " ">> \o urljoin(base_url, kept[j].href)]

_extract_meta_description(sp) ==
    IF sp.meta # None /\ sp.meta[1] # <<>> THEN Strip(sp.meta[1]) ELSE NoMeta

\* the content dict built by fetch_website_content on a successful GET
fetch_website_content(u, sp) ==
    [title            |-> _extract_title(sp),
     main_content     |-> _extract_main_content(sp),
     headings         |-> _extract_headings(sp),
     links            |-> _extract_links(sp, u),
     meta_description |-> _extract_meta_description(sp),
     url              |-> u]

-----------------------------------------------------------------------------
(* GeminiBot.                                                              *)

max_history == 10
ContextHeadings == 10
ContextLinks == 5

\* one line of the context block: a literal label, then interpolated text
\* (a character sequence) or page text (runs)
Line(label, text, runs) == [label |-> label, text |-> text, runs |-> runs]

\* the context_parts list of set_website_context; "\n".join keeps it line by line
ContextBlock(content) ==
    <<Line("Website Title: ", content.title, <<>>),
      Line("URL: ", content.url, <<>>),
      Line("Meta Description: ", content.meta_description, <<>>)>>
    \o (IF content.headings # <<>>
        THEN <<Line("Key Headings:", <<>>, <<>>)>>
             \o [i \in 1..Len(FirstN(content.headings, ContextHeadings)) |->
                    Line("", content.headings[i], <<>>)]
        ELSE <<>>)
    \o (IF RunLen(content.main_content) # 0
        THEN <<Line("Main Content: ", <<>>, content.main_content)>>
        ELSE <<>>)
    \o (IF content.links # <<>>
        THEN <<Line("Important Links:", <<>>, <<>>)>>
             \o [i \in 1..Len(FirstN(content.links, ContextLinks)) |->
                    Line("", content.links[i], <<>>)]
        ELSE <<>>)

\* set_website_context that keeps a context block it has already built
set_website_context_once(content) ==
    /\ website_content' = Some(content)
    /\ context' = IF context = None THEN Some(ContextBlock(content)) ELSE context

set_website_context(content) ==
    /\ website_content' = Some(content)
    /\ context' = Some(ContextBlock(content))

\* a value returned by chat: a literal message followed by interpolated text
Reply(msg, text) == [msg |-> msg, text |-> text]

ApologyMsg == "I'm sorry, I couldn't generate a response. Please try rephrasing your question."
InvalidKeyMsg == "Error: Invalid Google Gemini API key. Please check your API key and try again."
QuotaMsg == "Error: API quota exceeded. Please check your Google Cloud account."
SafetyMsg == "Error: Content was blocked by safety filters. Please try rephrasing your question."
UnexpectedMsg == "Error: An unexpected error occurred - "

K_api_key == <<"a","p","i"," ","k","e","y">>
K_authentication == <<"a","u","t","h","e","n","t","i","c","a","t","i","o","n">>
K_quota == <<"q","u","o","t","a">>
K_limit == <<"l","i","m","i","t">>
K_safety == <<"s","a","f","e","t","y">>

\* ErrorReply with the quota test ahead of the credential test
ErrorReplyQuotaFirst(e) ==
    LET error_msg == Lower(e)
    IN  IF Contains(error_msg, K_quota) \/ Contains(error_msg, K_limit)
        THEN Reply(QuotaMsg, <<>>)
        ELSE IF Contains(error_msg, K_api_key) \/ Contains(error_msg, K_authentication)
        THEN Reply(InvalidKeyMsg, <<>>)
        ELSE IF Contains(error_msg, K_safety)
        THEN Reply(SafetyMsg, <<>>)
        ELSE Reply(UnexpectedMsg, e)

\* the except branch of chat, e the failure description str(e)
ErrorReply(e) ==
    LET error_msg == Lower(e)
    IN  IF Contains(error_msg, K_api_key) \/ Contains(error_msg, K_authentication)
        THEN Reply(InvalidKeyMsg, <<>>)
        ELSE IF Contains(error_msg, K_quota) \/ Contains(error_msg, K_limit)
        THEN Reply(QuotaMsg, <<>>)
        ELSE IF Contains(error_msg, K_safety)
        THEN Reply(SafetyMsg, <<>>)
        ELSE Reply(UnexpectedMsg, e)

\* Remember with the truncation keeping the oldest turns instead of the newest
RememberKeepsOldest(history, turn) ==
    LET appended == Append(history, turn)
    IN  IF Len(appended) > max_history THEN FirstN(appended, max_history) ELSE appended

\* the history after a successful exchange: append, then keep the last max_history
Remember(history, turn) ==
    LET appended == Append(history, turn)
    IN  IF Len(appended) > max_history THEN LastN(appended, max_history) ELSE appended

\* HasText with an empty text counted as a response
HasTextOrEmpty(outcome) == outcome.kind = "text"

\* `if response.text:` for a call that returned
HasText(outcome) == outcome.kind = "text" /\ outcome.text # <<>>

AttributeErrorText == 
    <<"'","G","e","m","i","n","i","B","o","t","'"," ","o","b","j","e","c","t"," ","h","a","s"," ","n","o"," ","a","t","t","r","i","b","u","t","e"," ","'","c","o","n","t","e","x","t","'">>

\* GeminiBot.chat(user_message).  outcome is what generate_content does:
\* [kind |-> "text", text |-> response.text] or [kind |-> "error", text |-> str(e)].
\* or [kind |-> "interrupt"], a KeyboardInterrupt raised during the call, which
\* `except Exception` does not catch: chat returns nothing and changes nothing.
\* Reading self.context before set_website_context raises AttributeError inside
\* the try, before the model is called.
chat(user_message, outcome) ==
    IF context = None
    THEN /\ reply' = Some(ErrorReply(AttributeErrorText))
         /\ UNCHANGED <<conversation_history, website_content, context, prompt,
                        model_called, exchanges>>
    ELSE /\ prompt' = Some([context |-> context[1], question |-> user_message])
         /\ model_called' = TRUE
         /\ UNCHANGED <<website_content, context>>
         /\ IF outcome.kind = "interrupt"
            THEN UNCHANGED <<conversation_history, exchanges, reply>>
            ELSE IF HasText(outcome)
            THEN LET bot_response == Strip(outcome.text)
                     turn == [user |-> user_message, bot |-> bot_response]
                 IN  /\ conversation_history' = Remember(conversation_history, turn)
                     /\ exchanges' = Append(exchanges, turn)
                     /\ reply' = Some(Reply("", bot_response))
            ELSE /\ reply' = Some(IF outcome.kind = "text"
                                  THEN Reply(ApologyMsg, <<>>)
                                  ELSE ErrorReply(outcome.text))
                 /\ UNCHANGED <<conversation_history, exchanges>>

-----------------------------------------------------------------------------
(* WebsiteChatbot: the console session.                                    *)
(* A console read rd is [kind |-> "line", text |-> the characters typed],  *)
(* [kind |-> "interrupt"] (KeyboardInterrupt raised by input) or           *)
(* [kind |-> "eof"] (EOFError raised by input).                            *)

Line_(text) == [kind |-> "line", text |-> text]
Interrupt == [kind |-> "interrupt", text |-> <<>>]
Eof == [kind |-> "eof", text |-> <<>>]

Event(at, rd) == [at |-> at, kind |-> rd.kind, text |-> rd.text]

P_http == <<"h","t","t","p",":","/","/">>
P_https == <<"h","t","t","p","s",":","/","/">>

RECURSIVE UntilDelimiter(_)
UntilDelimiter(s) ==
    IF s = <<>> \/ Head(s) \in {"/", "?", "#"} THEN <<>>
    ELSE <<Head(s)>> \o UntilDelimiter(Tail(s))

\* netloc that takes everything after the scheme
netlocWithPath(u) ==
    LET scheme == IF StartsWith(u, P_https) THEN P_https ELSE P_http
    IN  SubSeq(u, Len(scheme) + 1, Len(u))

\* urlparse(u).netloc for a u that starts with http:// or https://
netloc(u) ==
    LET scheme == IF StartsWith(u, P_https) THEN P_https ELSE P_http
    IN  UntilDelimiter(SubSeq(u, Len(scheme) + 1, Len(u)))

\* the prefixing step of _get_website_url
WithScheme(u) ==
    IF StartsWith(u, P_http) \/ StartsWith(u, P_https) THEN u ELSE P_https \o u

\* Uncaught with main() catching everything and returning normally
UncaughtSwallowed(kind) == Some(0)

\* how the process ends when an exception leaves run(): main() catches
\* Exception and calls sys.exit(1); a KeyboardInterrupt is no Exception, passes
\* main() and ends the interpreter with status 130
Uncaught(kind) == IF kind = "interrupt" THEN Some(130) ELSE Some(1)

\* setup(): _get_api_key() and GeminiBot(api_key).  env is GOOGLE_API_KEY
\* (unset or empty is <<>>), rd the console read made when env is falsy.
GetApiKey(env, rd) ==
    /\ pc = "AwaitingCredential"
    /\ UNCHANGED <<url, website_url, website_content, context, prompt, reply,
                   model_called, exchanges, extractorVars>>
    /\ IF env # <<>>
       THEN /\ event' = Event(pc, [kind |-> "env", text |-> env])
            /\ api_key' = Some(env)
            /\ chatbot' = TRUE
            /\ conversation_history' = <<>>
            /\ pc' = "AwaitingURL"
            /\ UNCHANGED exitCode
       ELSE /\ event' = Event(pc, rd)
            /\ IF rd.kind # "line"
               THEN /\ pc' = "Terminated"
                    /\ exitCode' = Uncaught(rd.kind)
                    /\ UNCHANGED <<api_key, chatbot, conversation_history>>
               ELSE IF Strip(rd.text) = <<>>
               THEN /\ pc' = "Terminated"
                    /\ exitCode' = Some(0)
                    /\ UNCHANGED <<api_key, chatbot, conversation_history>>
               ELSE /\ api_key' = Some(Strip(rd.text))
                    /\ chatbot' = TRUE
                    /\ conversation_history' = <<>>
                    /\ pc' = "AwaitingURL"
                    /\ UNCHANGED exitCode

\* one pass of the while loop of _get_website_url, called from setup()
\* (pc = "AwaitingURL") or from _change_website() (pc = "ChangingURL")
ReadUrl(rd) ==
    /\ pc \in {"AwaitingURL", "ChangingURL"}
    /\ event' = Event(pc, rd)
    /\ UNCHANGED <<api_key, website_url, chatbot, botVars, extractorVars>>
    /\ IF rd.kind # "line"
       THEN \* in setup the exception leaves run(); in the chat loop the
            \* except clauses of run() handle it
            /\ UNCHANGED url
            /\ IF pc = "AwaitingURL"
               THEN pc' = "Terminated" /\ exitCode' = Uncaught(rd.kind)
               ELSE IF rd.kind = "interrupt"
               THEN pc' = "Terminated" /\ exitCode' = Some(0)
               ELSE pc' = "Chatting" /\ UNCHANGED exitCode
       ELSE IF Strip(rd.text) = <<>>
       THEN /\ UNCHANGED url
            /\ IF pc = "AwaitingURL"
               THEN pc' = "Terminated" /\ exitCode' = Some(0)
               ELSE pc' = "Chatting" /\ UNCHANGED exitCode
       ELSE LET u == WithScheme(Strip(rd.text))
            IN  /\ UNCHANGED exitCode
                /\ IF netloc(u) # <<>>
                   THEN /\ url' = Some(u)
                        /\ pc' = IF pc = "AwaitingURL" THEN "Extracting"
                                 ELSE "ChangingExtracting"
                   ELSE UNCHANGED <<url, pc>>

\* Adopt with the session's URL assigned before the result is tested
AdoptUrlFirst(fetched) ==
    IF fetched = None
    THEN website_url' = url /\ UNCHANGED <<website_content, context>>
    ELSE /\ set_website_context(fetch_website_content(url[1], fetched[1]))
         /\ website_url' = url

\* `if content:` after the fetch, in setup() and in _change_website(): a
\* fetched document becomes the responder's context and the session's URL
Adopt(fetched) ==
    IF fetched = None
    THEN UNCHANGED <<website_url, website_content, context>>
    ELSE /\ set_website_context(fetch_website_content(url[1], fetched[1]))
         /\ website_url' = url

\* content_extractor.fetch_website_content(url) and what setup() or
\* _change_website() does with its result.  fetched is None when the GET or
\* the parsing fails, Some(document) otherwise.
Fetch(fetched) ==
    /\ pc \in {"Extracting", "ChangingExtracting"}
    /\ event' = Event(pc, [kind |-> IF fetched = None THEN "fetch_failed" ELSE "fetched",
                           text |-> url[1]])
    /\ UNCHANGED <<api_key, url, chatbot, conversation_history, prompt, reply,
                   model_called, exchanges, extractorVars>>
    /\ Adopt(fetched)
    /\ IF fetched # None
       THEN pc' = "Chatting" /\ UNCHANGED exitCode
       ELSE IF pc = "Extracting"
       THEN pc' = "Terminated" /\ exitCode' = Some(0)
       ELSE pc' = "Chatting" /\ UNCHANGED exitCode

QuitCommands == {<<"q","u","i","t">>, <<"e","x","i","t">>, <<"b","y","e">>, <<"q">>}
C_help == <<"h","e","l","p">>
C_info == <<"i","n","f","o">>
C_new_url == <<"n","e","w"," ","u","r","l">>

\* what _show_website_info prints in the current state (nothing is None)
_show_website_info ==
    IF chatbot /\ website_content # None
    THEN LET content == website_content[1]
         IN  Some([url |-> content.url, title |-> content.title,
                   description |-> content.meta_description,
                   links |-> Len(content.links), headings |-> Len(content.headings)])
    ELSE None

\* Command with the quit test made by prefix instead of equality
CommandQuitByPrefix(rd) ==
    IF rd.kind = "interrupt" THEN "interrupt"
    ELSE IF rd.kind = "eof" THEN "error"
    ELSE LET user_input == Strip(rd.text)
             lowered == Lower(user_input)
         IN  IF \E w \in QuitCommands : StartsWith(lowered, w) THEN "quit"
             ELSE IF user_input = <<>> THEN "empty"
             ELSE IF lowered = C_help THEN "help"
             ELSE IF lowered = C_info THEN "info"
             ELSE IF StartsWith(lowered, C_new_url) THEN "new url"
             ELSE "message"

\* the exception handling and the if/elif chain of the while loop of run(),
\* in the order of the code: what a console read makes the loop do
Command(rd) ==
    IF rd.kind = "interrupt" THEN "interrupt"
    ELSE IF rd.kind = "eof" THEN "error"
    ELSE LET user_input == Strip(rd.text)
             lowered == Lower(user_input)
         IN  IF lowered \in QuitCommands THEN "quit"
             ELSE IF user_input = <<>> THEN "empty"
             ELSE IF lowered = C_help THEN "help"
             ELSE IF lowered = C_info THEN "info"
             ELSE IF StartsWith(lowered, C_new_url) THEN "new url"
             ELSE "message"

\* one pass of the while loop of run(): the read, the dispatch and, for a
\* forwarded message, the whole chat call with the model's outcome.  An
\* interrupt that arrives during the model call is recorded as the event.
ChatTurn(rd, outcome) ==
    LET command == Command(rd)
    IN  /\ pc = "Chatting"
        /\ event' = IF command = "message" /\ outcome.kind = "interrupt"
                    THEN [at |-> "Model", kind |-> "interrupt", text |-> rd.text]
                    ELSE Event(pc, rd)
        /\ UNCHANGED <<api_key, url, website_url, chatbot, extractorVars>>
        /\ CASE command \in {"interrupt", "quit"} ->
                    pc' = "Terminated" /\ exitCode' = Some(0) /\ UNCHANGED botVars
             [] command \in {"error", "empty", "help", "info"} ->
                    UNCHANGED <<pc, exitCode, botVars>>
             [] command = "new url" ->
                    pc' = "ChangingURL" /\ UNCHANGED <<exitCode, botVars>>
             [] OTHER ->
                    /\ chat(Strip(rd.text), outcome)
                    /\ IF outcome.kind = "interrupt"
                       THEN pc' = "Terminated" /\ exitCode' = Some(0)
                       ELSE UNCHANGED <<pc, exitCode>>

-----------------------------------------------------------------------------
(* The documents, console entries and model outcomes the checks draw from. *)

MaxSessionExchanges == 2   \* successful exchanges explored in a console session
MaxExchanges == 12         \* successful exchanges explored on a GeminiBot alone
MaxBlankReplies == 1       \* whitespace-only replies explored on a GeminiBot alone
MaxNodes == 2              \* elements of a document given to _extract_main_content
MaxHeadingElems == 23      \* heading elements of a document given to _extract_headings

\* a page with a title only
SoupA ==
    [title |-> Some(<<" ", "A", " ">>), body |-> TRUE, nodes |-> <<>>,
     headings |-> <<>>, anchors |-> <<>>, meta |-> None]

\* a page with more headings, links and text than the context block keeps
SoupB ==
    [title |-> Some(<<"B">>), body |-> TRUE,
     nodes |-> <<[sels |-> {"main"}, text |-> <<Run("x", 6000)>>]>>,
     headings |-> [i \in 1..11 |-> [level |-> 2, text |-> <<LowerLetters[i]>>]],
     anchors |-> [i \in 1..6 |-> [href |-> <<"h","t","t","p",":","/","/","c",".","i","o">>, text |-> <<LowerLetters[i]>>]],
     meta |-> Some(<<"d">>)]

Soups == {SoupA, SoupB}

EnvKeys == {<<>>, <<"A","I","k">>}
CredentialReads ==
    {Line_(<<>>), Line_(<<" ">>), Line_(<<" ","A","I","k"," ">>), Interrupt, Eof}

UrlReads ==
    {Line_(<<>>), Line_(<<" ">>), Line_(<<"a",".","i","o">>),
     Line_(<<" ","h","t","t","p",":","/","/","b",".","i","o","/","p"," ">>),
     Line_(<<"/","x">>), Line_(<<"h","t","t","p",":","/","/">>), Interrupt, Eof}

ChatReads ==
    {Line_(<<"q">>), Line_(<<" ","B","y","e"," ">>), Line_(<<"E","X","I","T">>),
     Line_(<<"q","u","i","t">>), Line_(<<>>), Line_(<<" ">>),
     Line_(<<"h","e","l","p">>), Line_(<<"I","n","f","o">>),
     Line_(<<"n","e","w"," ","u","r","l">>), Line_(<<"N","e","w"," ","U","R","L"," ","x">>),
     Line_(<<"h","i">>), Line_(<<"q","u","i","t","s">>), Interrupt, Eof}

Text(t) == [kind |-> "text", text |-> t]
Error(e) == [kind |-> "error", text |-> e]
Interrupted == [kind |-> "interrupt", text |-> <<>>]

E_quota == <<"q","u","o","t","a"," ","e","x","c","e","e","d","e","d">>
E_other == <<"t","i","m","e","o","u","t">>

Descriptions ==
    {E_quota, E_other,
     <<"A","P","I"," ","k","e","y"," ","n","o","t"," ","v","a","l","i","d">>,
     <<"A","u","t","h","e","n","t","i","c","a","t","i","o","n">>,
     <<"Q","u","o","t","a"," ","E","x","c","e","e","d","e","d">>,
     <<"r","a","t","e"," ","l","i","m","i","t",":"," ","b","a","d"," ","A","P","I"," ","k","e","y">>,
     <<"s","a","f","e","t","y"," ","l","i","m","i","t">>,
     <<"s","a","f","e","t","y"," ","a","u","t","h","e","n","t","i","c","a","t","i","o","n">>,
     <<"S","A","F","E","T","Y"," ","b","l","o","c","k">>}

SessionOutcomes ==
    {Text(<<" ","o","k"," ">>), Text(<<>>), Error(E_quota), Error(E_other), Interrupted}

BotOutcomes ==
    {Text(<<" ","o","k"," ">>), Text(<<" ">>), Text(<<>>), Interrupted}
    \cup {Error(e) : e \in Descriptions}

\* the exchanges whose reply is empty once stripped
BlankReplies(log) == Len(SelectSeq(log, LAMBDA turn : turn.bot = <<>>))

Succeeds(outcome) == outcome.kind = "text" /\ outcome.text # <<>>

\* the message of the k-th exchange when a GeminiBot is driven alone
TurnMessage(k) == <<"m", LowerLetters[k]>>

U_a == <<"h","t","t","p","s",":","/","/","a",".","i","o">>
U_b == <<"h","t","t","p",":","/","/","b",".","i","o","/","p">>
BotContents == {fetch_website_content(U_a, SoupA), fetch_website_content(U_b, SoupB)}

\* texts of an element whose letter is c: empty, padded with whitespace,
\* longer than the cut with a space at the cut, whitespace only
PatternText(k, c) ==
    CASE k = 1 -> <<>>
      [] k = 2 -> <<Run(" ", 2), Run(c, 3), Run("\n", 2), Run(c, 1), Run(" ", 1)>>
      [] k = 3 -> <<Run(c, MaxContentLength - 1), Run(" ", 1), Run(c, 3)>>
      [] OTHER -> <<Run("\t", 1)>>

ElementKinds ==
    {{"main"}, {"article"}, {".content"}, {"#content"}, {".main"}, {"#main"},
     {}, {"main", ".content"}}

MainDocs ==
    {[title |-> None, body |-> b, headings |-> <<>>, anchors |-> <<>>, meta |-> None,
      nodes |-> [i \in 1..Len(f) |->
                    [sels |-> f[i].sels, text |-> PatternText(f[i].pat, LowerLetters[i])]]] :
        b \in BOOLEAN,
        f \in UNION {[1..n -> [sels : ElementKinds, pat : 1..4]] : n \in 0..MaxNodes}}

\* level of the p-th heading element under level pattern lp
LevelAt(lp, p) ==
    CASE lp = 1 -> ((p - 1) % 6) + 1
      [] lp = 2 -> 6 - ((p - 1) % 6)
      [] lp = 3 -> 2
      [] OTHER -> ((p * p) % 6) + 1

\* text of the p-th heading element under text pattern tp
HeadingTextAt(tp, p) ==
    IF (tp = 2 /\ p % 3 = 0) \/ (tp = 4 /\ p <= 2) THEN <<>>
    ELSE IF tp = 3 /\ p % 4 = 0 THEN <<" ">>
    ELSE <<" ", LowerLetters[p], " ">>

HeadingDocs ==
    {[title |-> None, body |-> TRUE, nodes |-> <<>>, anchors |-> <<>>, meta |-> None,
      headings |-> [p \in 1..n |->
                      [level |-> LevelAt(lp, p), text |-> HeadingTextAt(tp, p)]]] :
        n \in 0..MaxHeadingElems, lp \in 1..4, tp \in 1..4}

-----------------------------------------------------------------------------
(* Specifications.                                                         *)

NoEvent == [at |-> "Start", kind |-> "none", text |-> <<>>]

BotFresh ==
    /\ conversation_history = <<>>
    /\ website_content = None
    /\ context = None
    /\ prompt = None
    /\ reply = None
    /\ model_called = FALSE
    /\ exchanges = <<>>

\* the console program: WebsiteChatbot() and the start of run()
Init ==
    /\ pc = "AwaitingCredential"
    /\ exitCode = None
    /\ event = NoEvent
    /\ api_key = None
    /\ url = None
    /\ website_url = None
    /\ chatbot = FALSE
    /\ BotFresh
    /\ soup = None
    /\ extracted = None

Credential == \E env \in EnvKeys, rd \in CredentialReads : GetApiKey(env, rd)
UrlEntry == \E rd \in UrlReads : ReadUrl(rd)
Extraction == \E fetched \in {None} \cup {Some(sp) : sp \in Soups} : Fetch(fetched)
\* the model is called only for a forwarded message
Turn ==
    \E rd \in ChatReads :
        \E outcome \in IF Command(rd) = "message" THEN SessionOutcomes ELSE {Interrupted} :
            /\ Succeeds(outcome) => Len(exchanges) < MaxSessionExchanges
            /\ ChatTurn(rd, outcome)

Next == Credential \/ UrlEntry \/ Extraction \/ Turn

Spec == Init /\ [][Next]_vars

\* a GeminiBot driven directly: GeminiBot(api_key), then set_website_context
\* and chat in any order
BotInit ==
    /\ pc = "Bot"
    /\ exitCode = None
    /\ event = NoEvent
    /\ api_key = Some(<<"A","I","k">>)
    /\ url = None
    /\ website_url = None
    /\ chatbot = TRUE
    /\ BotFresh
    /\ soup = None
    /\ extracted = None

SetContext ==
    \E content \in BotContents :
        /\ set_website_context(content)
        /\ UNCHANGED <<sessionVars, event, conversation_history, prompt, reply,
                       model_called, exchanges, extractorVars>>

Chat ==
    \E outcome \in BotOutcomes :
        /\ Succeeds(outcome) => Len(exchanges) < MaxExchanges
        /\ Strip(outcome.text) = <<>> => BlankReplies(exchanges) < MaxBlankReplies
        /\ chat(TurnMessage(Len(exchanges) + 1), outcome)
        /\ event' = [at |-> "Bot", kind |-> outcome.kind, text |-> outcome.text]
        /\ UNCHANGED <<sessionVars, extractorVars>>

BotNext == SetContext \/ Chat

SpecBot == BotInit /\ [][BotNext]_vars

\* _extract_main_content applied to a document
MainInit ==
    /\ pc = "Extractor"
    /\ exitCode = None
    /\ event = NoEvent
    /\ api_key = None
    /\ url = None
    /\ website_url = None
    /\ chatbot = FALSE
    /\ BotFresh
    /\ soup \in MainDocs
    /\ extracted = None

ExtractMainContent ==
    /\ extracted = None
    /\ extracted' = Some(_extract_main_content(soup))
    /\ UNCHANGED <<sessionVars, event, botVars, soup>>

MainNext == ExtractMainContent

SpecMain == MainInit /\ [][MainNext]_vars

\* _extract_headings applied to a document
HeadingsInit ==
    /\ pc = "Extractor"
    /\ exitCode = None
    /\ event = NoEvent
    /\ api_key = None
    /\ url = None
    /\ website_url = None
    /\ chatbot = FALSE
    /\ BotFresh
    /\ soup \in HeadingDocs
    /\ extracted = None

ExtractHeadings ==
    /\ extracted = None
    /\ extracted' = Some(_extract_headings(soup))
    /\ UNCHANGED <<sessionVars, event, botVars, soup>>

HeadingsNext == ExtractHeadings

SpecHeadings == HeadingsInit /\ [][HeadingsNext]_vars

-----------------------------------------------------------------------------
(* Properties of GeminiBot (checked under SpecBot).                        *)

\* C1: the history never holds more than 10 turns and is, in order, the most
\* recent min(k, 10) of the k successful exchanges so far; after 11 successful
\* exchanges it holds 10 and starts with the second exchange.
C1_HistoryIsMostRecentTen ==
    LET k == Len(exchanges)
        n == IF k < 10 THEN k ELSE 10
    IN  /\ Len(conversation_history) <= 10
        /\ Len(conversation_history) = n
        /\ \A i \in 1..n : conversation_history[i] = exchanges[k - n + i]
        /\ k = 11 => conversation_history[1] = exchanges[2]

C1_Witness ==
    /\ Len(exchanges) = 11
    /\ Len(conversation_history) = 10
    /\ conversation_history[1].user = TurnMessage(2)
    /\ conversation_history[10].user = TurnMessage(11)

C4_Auth(e) == Contains(Lower(e), K_api_key) \/ Contains(Lower(e), K_authentication)
C4_Quota(e) == Contains(Lower(e), K_quota) \/ Contains(Lower(e), K_limit)
C4_Safety(e) == Contains(Lower(e), K_safety)

\* C4: a chat call whose model call fails returns the invalid-key message when
\* the lower-cased description contains "api key" or "authentication", else
\* the quota message when it contains "quota" or "limit", else the
\* content-blocked message when it contains "safety", else the generic message
\* followed by the raw description; "quota exceeded" yields the quota message.
C4_FailureClassifiedByPriority ==
    [][(Chat /\ context # None /\ event'.kind = "error") =>
        LET e == event'.text
        IN  /\ reply' # None
            /\ C4_Auth(e) => reply'[1] = Reply(InvalidKeyMsg, <<>>)
            /\ (~C4_Auth(e) /\ C4_Quota(e)) => reply'[1] = Reply(QuotaMsg, <<>>)
            /\ (~C4_Auth(e) /\ ~C4_Quota(e) /\ C4_Safety(e)) =>
                    reply'[1] = Reply(SafetyMsg, <<>>)
            /\ (~C4_Auth(e) /\ ~C4_Quota(e) /\ ~C4_Safety(e)) =>
                    reply'[1] = Reply(UnexpectedMsg, e)
            /\ e = E_quota => reply'[1].msg = QuotaMsg]_vars

\* a description naming both a limit and an API key got the invalid-key message
C4_Witness ==
    /\ event.kind = "error"
    /\ C4_Auth(event.text) /\ C4_Quota(event.text)
    /\ model_called
    /\ reply = Some(Reply(InvalidKeyMsg, <<>>))

FixedMessages == {ApologyMsg, InvalidKeyMsg, QuotaMsg, SafetyMsg, UnexpectedMsg}

\* C5: a chat call whose response has no text, or whose model call fails,
\* returns one of the fixed messages and leaves the history, the stored
\* content and the context block as they were; the history changes only in a
\* call whose response has non-empty text.
C5_FailedCallChangesNothing ==
    [][/\ (Chat /\ event'.kind \in {"text", "error"} /\ ~Succeeds(event')) =>
            /\ reply' # None /\ reply'[1].msg \in FixedMessages
            /\ UNCHANGED <<conversation_history, website_content, context>>
       /\ conversation_history' # conversation_history =>
            /\ Succeeds(event')
            /\ Len(conversation_history') <= Len(conversation_history) + 1]_vars

\* an empty response after a successful exchange: the apology, history kept
C5_Witness ==
    /\ event = [at |-> "Bot", kind |-> "text", text |-> <<>>]
    /\ reply = Some(Reply(ApologyMsg, <<>>))
    /\ Len(conversation_history) = 3
    /\ context # None

-----------------------------------------------------------------------------
(* Properties of the console session (checked under Spec).                 *)

InSession == pc \in {"Chatting", "ChangingURL", "ChangingExtracting"}

\* the lines a prompt must carry to embed a page's title and URL
EmbedsTitleAndUrl(pr, title, u) ==
    /\ \E i \in 1..Len(pr.context) : pr.context[i] = Line("Website Title: ", title, <<>>)
    /\ \E i \in 1..Len(pr.context) : pr.context[i] = Line("URL: ", u, <<>>)

\* the step reads an empty URL entry or ends a fetch in failure
AbandonedOrFailed(ev) ==
    \/ ev.at = "ChangingExtracting" /\ ev.kind = "fetch_failed"
    \/ ev.at = "ChangingURL" /\ ev.kind = "line" /\ Strip(ev.text) = <<>>

\* C2: when the URL entry of 'new url' is empty or the fetch of the new URL
\* fails, the session is back at the chat prompt with website_content, the
\* context block and website_url unchanged, 'info' prints what it printed
\* before, and the context block still carries the prior title and URL.
C2_FailedChangeKeepsContext ==
    [][(pc \in {"ChangingURL", "ChangingExtracting"} /\ AbandonedOrFailed(event')) =>
        /\ pc' = "Chatting"
        /\ UNCHANGED <<website_content, context, website_url>>
        /\ _show_website_info' = _show_website_info
        /\ _show_website_info' # None
        /\ _show_website_info'[1].title = website_content[1].title
        /\ EmbedsTitleAndUrl([context |-> context'[1]], website_content[1].title,
                             website_url[1])]_vars

\* a fetch of another URL failed and the session is back at the chat prompt
C2_Witness ==
    /\ pc = "Chatting"
    /\ event.at = "ChangingExtracting" /\ event.kind = "fetch_failed"
    /\ url # website_url
    /\ website_content # None /\ website_content[1].url = website_url[1]

\* C3: a successful 'new url' makes website_content, the context block and
\* website_url describe the new page and leaves the history unchanged; every
\* prompt sent afterwards embeds the stored title and URL; the history changes
\* only in a turn that forwards a message, never by 'new url', 'help', 'info'
\* or an empty entry.
C3_ChangeReplacesContextKeepsHistory ==
    [][/\ (pc = "ChangingExtracting" /\ event'.kind = "fetched") =>
            /\ pc' = "Chatting"
            /\ website_url' = url
            /\ website_content' # None /\ website_content'[1].url = url[1]
            /\ context' # None
            /\ EmbedsTitleAndUrl([context |-> context'[1]], website_content'[1].title,
                                 url[1])
            /\ Len(context'[1]) = Len(ContextBlock(website_content'[1]))
            /\ UNCHANGED conversation_history
       /\ (pc = "Chatting" /\ Command(event') = "message") =>
            /\ prompt' # None
            /\ EmbedsTitleAndUrl(prompt'[1], website_content[1].title, website_url[1])
            /\ prompt'[1].question = Strip(event'.text)
       /\ conversation_history' # conversation_history =>
            (pc = "Chatting" /\ Command(event') = "message")
       /\ (pc = "Chatting" /\ Command(event') \in {"new url", "help", "info", "empty"}) =>
            UNCHANGED conversation_history
       /\ pc \in {"ChangingURL", "ChangingExtracting"} =>
            UNCHANGED conversation_history]_vars

\* the site was changed after an exchange: the history is kept, the last
\* prompt still shows the old site, the stored context the new one
C3_Witness ==
    /\ pc = "Chatting"
    /\ event.at = "ChangingExtracting" /\ event.kind = "fetched"
    /\ conversation_history # <<>>
    /\ prompt # None
    /\ ~EmbedsTitleAndUrl(prompt[1], website_content[1].title, website_url[1])
    /\ EmbedsTitleAndUrl([context |-> context[1]], website_content[1].title,
                         website_url[1])

ConsolePrompts == {"AwaitingCredential", "AwaitingURL", "Chatting", "ChangingURL"}

\* C6 as claimed: an interrupt during any console input ends the session
\* gracefully with exit code 0.
C6_InterruptAlwaysGraceful ==
    (event.kind = "interrupt" /\ event.at \in ConsolePrompts) =>
        (pc = "Terminated" /\ exitCode = Some(0))

\* C6 as amended: an interrupt during the chat prompt or the URL prompt of
\* 'new url' ends the session with exit code 0, as a quit command does; an
\* interrupt during the credential prompt or the URL prompt of setup is not
\* caught, and the process ends with a non-zero status.
C6_InterruptGracefulInChatLoop ==
    /\ (event.kind = "interrupt" /\ event.at \in {"Chatting", "ChangingURL"}) =>
            (pc = "Terminated" /\ exitCode = Some(0))
    /\ (event.at = "Chatting" /\ Command(event) = "quit") =>
            (pc = "Terminated" /\ exitCode = Some(0))
    /\ (event.kind = "interrupt" /\ event.at \in {"AwaitingCredential", "AwaitingURL"}) =>
            (pc = "Terminated" /\ exitCode # None /\ exitCode # Some(0))

\* an interrupt at the URL prompt of setup ended the process abnormally
C6_Witness ==
    /\ event.kind = "interrupt" /\ event.at = "AwaitingURL"
    /\ pc = "Terminated" /\ exitCode = Some(130)

C7_QuitWords ==
    {<<"q","u","i","t">>, <<"e","x","i","t">>, <<"b","y","e">>, <<"q">>}

\* C7: a session that has reached the chat prompt terminates only on an entry
\* that, trimmed and lower-cased, is quit, exit, bye or q, or on an interrupt;
\* after any other read, fetch or model outcome it is still in the chat loop
\* and the process has not exited.
C7_OnlyQuitOrInterruptEndsChat ==
    /\ (pc = "Terminated" /\ event.at \in {"Chatting", "ChangingURL", "ChangingExtracting", "Model"}) =>
            \/ event.kind = "interrupt"
            \/ /\ event.at = "Chatting" /\ event.kind = "line"
               /\ Lower(Strip(event.text)) \in C7_QuitWords
    /\ (event.at \in {"Chatting", "ChangingURL", "ChangingExtracting"}
            /\ event.kind # "interrupt"
            /\ ~(event.at = "Chatting" /\ event.kind = "line"
                    /\ Lower(Strip(event.text)) \in C7_QuitWords)) =>
            (InSession /\ exitCode = None)
    /\ (event.at = "Chatting" /\ event.kind = "line"
            /\ Lower(Strip(event.text)) \in C7_QuitWords) => pc = "Terminated"

\* a message that only starts with a quit word was forwarded, the model call
\* failed, and the session is still at the chat prompt
C7_Witness ==
    /\ pc = "Chatting"
    /\ event = [at |-> "Chatting", kind |-> "line", text |-> <<"q","u","i","t","s">>]
    /\ reply = Some(Reply(QuotaMsg, <<>>))
    /\ exitCode = None

\* the URL has a scheme followed by at least one host character
C8_HasHost(u) ==
    \E scheme \in {P_http, P_https} :
        /\ StartsWith(u, scheme)
        /\ Len(u) > Len(scheme)
        /\ u[Len(scheme) + 1] \notin {"/", "?", "#"}

C8_Order ==
    {<<"AwaitingCredential", "AwaitingURL">>, <<"AwaitingCredential", "Terminated">>,
     <<"AwaitingURL", "Extracting">>, <<"AwaitingURL", "Terminated">>,
     <<"Extracting", "Chatting">>, <<"Extracting", "Terminated">>,
     <<"Chatting", "ChangingURL">>, <<"Chatting", "Terminated">>,
     <<"ChangingURL", "ChangingExtracting">>, <<"ChangingURL", "Chatting">>,
     <<"ChangingURL", "Terminated">>, <<"ChangingExtracting", "Chatting">>}

\* C8: setup moves AwaitingCredential -> AwaitingURL -> Extracting -> Chatting
\* in that order; the chat loop is entered only with a non-empty credential, a
\* URL with a non-empty host and a fetched content set as the responder's
\* context; an empty credential, an empty URL or a failed extraction ends the
\* process without any model call; the model is never called without a context.
C8_SetupOrderAndPreconditions ==
    [][/\ pc' # pc => <<pc, pc'>> \in C8_Order
       /\ InSession' =>
            /\ chatbot' /\ api_key' # None /\ api_key'[1] # <<>>
            /\ website_url' # None /\ C8_HasHost(website_url'[1])
            /\ website_content' # None /\ website_content'[1].url = website_url'[1]
            /\ context' # None
       /\ (pc \in {"AwaitingCredential", "AwaitingURL", "Extracting"}
                /\ \/ event'.kind = "line" /\ Strip(event'.text) = <<>>
                   \/ event'.kind = "fetch_failed") =>
            (pc' = "Terminated" /\ exitCode' # None)
       /\ (pc' = "Terminated" /\ pc \in {"AwaitingCredential", "AwaitingURL", "Extracting"}) =>
            (~model_called' /\ prompt' = None /\ reply' = None)
       /\ (model_called' # model_called \/ prompt' # prompt) =>
            (context # None /\ pc = "Chatting")
       /\ model_called' => context' # None
       /\ reply' # None => reply'[1].text # AttributeErrorText]_vars

\* setup completed: the first chat prompt after a successful extraction
C8_Witness ==
    /\ pc = "Chatting"
    /\ event.at = "Extracting" /\ event.kind = "fetched"
    /\ ~model_called
    /\ api_key # None /\ website_content # None /\ context # None

-----------------------------------------------------------------------------
(* Properties of _extract_main_content (checked under SpecMain).  The i-th  *)
(* element of a document writes its text with the i-th letter only, so the  *)
(* letters of a result tell which elements it was taken from.               *)

Letters(t) == {t[i].c : i \in 1..Len(t)} \ Whitespace

C9_Order == <<"main", "article", ".content", "#content", ".main", "#main">>

\* the selectors, by rank, that match at least one element
C9_Matching(sp) ==
    {k \in 1..6 : \E i \in 1..Len(sp.nodes) : C9_Order[k] \in sp.nodes[i].sels}

\* the elements matched by the first matching selector
C9_Sources(sp) ==
    LET first == CHOOSE k \in C9_Matching(sp) : \A j \in C9_Matching(sp) : k <= j
    IN  {i \in 1..Len(sp.nodes) : C9_Order[first] \in sp.nodes[i].sels}

C9_LettersOf(sp, elems) == UNION {Letters(sp.nodes[i].text) : i \in elems}

\* the trimmed texts of the first matching selector's elements, joined by
\* spaces, are the empty string: one element, with nothing but whitespace
C9_SourceTextEmpty(sp) ==
    Cardinality(C9_Sources(sp)) = 1 /\ C9_LettersOf(sp, C9_Sources(sp)) = {}

\* every whitespace run is one space between two other characters, except
\* that a text cut at `cut` characters may end in that space
C9_Collapsed(r, cut) ==
    /\ RunLen(r) <= cut
    /\ \A i \in 1..Len(r) :
          r[i].c \in Whitespace =>
              /\ r[i].c = " " /\ r[i].n = 1
              /\ i > 1 /\ r[i - 1].c \notin Whitespace
              /\ i = Len(r) => RunLen(r) = cut

\* C9 as claimed: when some selector matches, the text comes only from the
\* elements of the first matching selector, and the body text is used only
\* when no selector matches; the result is whitespace-collapsed and at most
\* 5000 characters.
C9_OnlyFirstMatchingSelector ==
    extracted # None =>
        /\ C9_Collapsed(extracted[1], 5000)
        /\ C9_Matching(soup) # {} =>
              Letters(extracted[1]) \subseteq C9_LettersOf(soup, C9_Sources(soup))

\* C9 as amended: the text comes only from the elements of the first matching
\* selector unless their joined trimmed text is empty; then, as when no
\* selector matches, the body text is used (nothing without a body).  The
\* text is whitespace-collapsed and trimmed, then cut to 5000 characters.
C9_FirstMatchingSelectorWithText ==
    extracted # None =>
        LET r == extracted[1]
            all == 1..Len(soup.nodes)
            fromSelector == C9_Matching(soup) # {} /\ ~C9_SourceTextEmpty(soup)
            used == IF fromSelector THEN C9_Sources(soup)
                    ELSE IF soup.body THEN all ELSE {}
            lettered == {i \in used : Letters(soup.nodes[i].text) # {}}
        IN  /\ C9_Collapsed(r, 5000)
            /\ Letters(r) \subseteq C9_LettersOf(soup, used)
            /\ lettered = {} => r = <<>>
            /\ lettered # {} =>
                  /\ r # <<>>
                  /\ r[1].c \in Letters(soup.nodes[CHOOSE i \in lettered :
                                                      \A j \in lettered : i <= j].text)

\* an empty main element beside text elsewhere: the body text was extracted
C9_Witness ==
    /\ extracted # None
    /\ C9_Matching(soup) # {}
    /\ C9_SourceTextEmpty(soup)
    /\ Letters(extracted[1]) # {}
    /\ ~(Letters(extracted[1]) \subseteq C9_LettersOf(soup, C9_Sources(soup)))

-----------------------------------------------------------------------------
(* Properties of _extract_headings (checked under SpecHeadings).  The p-th  *)
(* heading element of a document is empty, blank or the p-th letter padded  *)
(* with spaces.                                                             *)

\* the heading elements that have text
C10_WithText(sp) ==
    {p \in 1..Len(sp.headings) :
        \E i \in 1..Len(sp.headings[p].text) : sp.headings[p].text[i] \notin Whitespace}

\* p comes before q: by level, then by position in the document
C10_Before(sp, p, q) ==
    \/ sp.headings[p].level < sp.headings[q].level
    \/ sp.headings[p].level = sp.headings[q].level /\ p < q

C10_LevelDigit(l) == CASE l = 1 -> "1" [] l = 2 -> "2" [] l = 3 -> "3"
                       [] l = 4 -> "4" [] l = 5 -> "5" [] OTHER -> "6"

\* the string of the p-th heading element
C10_String(sp, p) == <<"H", C10_LevelDigit(sp.headings[p].level), ":", " ", LowerLetters[p]>>

\* r is the first Len(r) of the elements in `among`, in level-then-document
\* order, each written with its own level
C10_InOrder(sp, r, among) ==
    \A j \in 1..Len(r) :
        \E p \in among :
            /\ r[j] = C10_String(sp, p)
            /\ Cardinality({q \in among : C10_Before(sp, q, p)}) = j - 1

\* C10 as claimed: more than 20 heading elements give exactly 20 strings,
\* each prefixed with its element's level, in level-then-document order; no
\* document gives more than 20.
C10_TwentyOfMoreThanTwentyElements ==
    extracted # None =>
        /\ Len(extracted[1]) <= 20
        /\ Len(soup.headings) > 20 =>
              /\ Len(extracted[1]) = 20
              /\ C10_InOrder(soup, extracted[1], C10_WithText(soup))

\* C10 as amended: with K the number of heading elements whose trimmed text
\* is not empty, min(K, 20) strings are returned (exactly 20 when K > 20),
\* each prefixed with its element's level, the first of the level-then-
\* document order of those K elements.
C10_TwentyOfMoreThanTwentyWithText ==
    extracted # None =>
        LET K == Cardinality(C10_WithText(soup))
        IN  /\ Len(extracted[1]) <= 20
            /\ Len(extracted[1]) = IF K > 20 THEN 20 ELSE K
            /\ C10_InOrder(soup, extracted[1], C10_WithText(soup))

\* 23 heading elements, 21 of them with text: 20 strings
C10_Witness ==
    /\ extracted # None
    /\ Cardinality(C10_WithText(soup)) > 20
    /\ Cardinality(C10_WithText(soup)) < Len(soup.headings)
    /\ Len(extracted[1]) = 20
    /\ \E j \in 1..19 : extracted[1][j][2] # extracted[1][j + 1][2]

====
